---- MODULE Spec2Model ----
(***************************************************************************)
(* Staged incremental ETL loader of FastAPI_dw: process_order_file         *)
(* (app/utils/etl/order_processor.py) and process_sales_file               *)
(* (app/utils/etl/sales_processor.py) over the relations copr13/fact_order *)
(* and copr23/fact_sales, and the dimension relations dim_factory and      *)
(* dim_product.                                                            *)
(*                                                                         *)
(* Text values are sequences of one-character strings, so that             *)
(* str.replace, str.split and str.contains are computed on characters.     *)
(* Timestamps are naturals read from a strictly increasing wall clock;     *)
(* the SQL sentinel '1900-01-01' is 0.                                     *)
(***************************************************************************)
EXTENDS Naturals, Integers, Sequences, FiniteSets, Bags, TLC

(* ------------------------------ bounds -------------------------------- *)
(* runs started in one behaviour, and raw rows read over all of them *)
MaxRuns == 3
MaxIngest == 3
MaxResumeIngest == 2
MaxConcurrentIngest == 2
MaxRemapRows == 2
MaxKeyIngest == 2

(* ------------------------------ text ---------------------------------- *)
Null == <<"NULL">>

LowerCase == <<"a","b","c","d","e","f","g","h","i","j","k","l","m",
               "n","o","p","q","r","s","t","u","v","w","x","y","z">>
UpperCase == <<"A","B","C","D","E","F","G","H","I","J","K","L","M",
               "N","O","P","Q","R","S","T","U","V","W","X","Y","Z">>

UpperChar(c) ==
  LET at == { i \in 1..26 : LowerCase[i] = c }
  IN  IF at = {} THEN c ELSE UpperCase[CHOOSE i \in at : TRUE]

Upper(s) == [i \in 1..Len(s) |-> UpperChar(s[i])]

(* str.contains(marker, case=False, na=False) *)
ContainsCI(s, marker) ==
  /\ s # Null
  /\ Len(s) >= Len(marker)
  /\ LET us == Upper(s)
         um == Upper(marker)
     IN  \E i \in 1..(Len(s) - Len(marker) + 1) :
           SubSeq(us, i, i + Len(marker) - 1) = um

(* str.replace('.0', ''): every non-overlapping occurrence, left to right *)
RECURSIVE ReplaceDotZero(_)
ReplaceDotZero(s) ==
  IF Len(s) < 2 THEN s
  ELSE IF s[1] = "." /\ s[2] = "0"
       THEN ReplaceDotZero(SubSeq(s, 3, Len(s)))
       ELSE <<s[1]>> \o ReplaceDotZero(Tail(s))

(* lambda x: str(x).replace('.0', '') if pd.notna(x) and x is not None else None *)
CleanText(x) == IF x = Null THEN Null ELSE ReplaceDotZero(x)

(* .str.split("-").str[0] *)
RECURSIVE FirstToken(_)
FirstToken(s) ==
  IF s = <<>> \/ s[1] = "-" THEN <<>>
  ELSE <<s[1]>> \o FirstToken(Tail(s))

DigitChars == <<"0","1","2","3","4","5","6","7","8","9">>

RECURSIVE Digits(_)
Digits(n) ==
  IF n < 10 THEN <<DigitChars[n + 1]>>
  ELSE Digits(n \div 10) \o <<DigitChars[(n % 10) + 1]>>

RECURSIVE ZFill(_, _)
ZFill(s, width) == IF Len(s) >= width THEN s ELSE ZFill(<<"0">> \o s, width)

(* f"{int(float(x)):04}" and .astype(str).str.zfill(4) *)
Pad4(n) == ZFill(Digits(n), 4)

(* ------------------------- program constants -------------------------- *)
(* names assigned to df_copr13.columns / df.columns: a file with another   *)
(* number of columns makes the assignment raise                            *)
OrderColumns == 17
SalesColumns == 15
(* COALESCE(MAX(import_timestamp), '1900-01-01'::timestamp) *)
Sentinel == 0

Str2201 == <<"2","2","0","1">>
Str2301 == <<"2","3","0","1">>
Str2302 == <<"2","3","0","2">>
AcceptedPrefix(k) == IF k = "order" THEN {Str2201} ELSE {Str2301, Str2302}

KDT      == <<"3","0","8","9","5",".","2">>
CodeST   == <<"3","0","8","9","5",".","1">>
CodeTN   == <<"3","0","8","9","5">>
CodeBP   == <<"3","0","8","9","5",".","5">>
CodeQT   == <<"3","0","8","9","5",".","4">>
MarkST   == <<"S","T">>
MarkTN   == <<"T","N">>
MarkBP   == <<"B","P">>
MarkQT   == <<"Q","T">>
Temp     == <<"t","e","m","p">>
StrNone  == <<"N","o","n","e">>
StrNan   == <<"n","a","n">>

(* ------------------------------ inputs -------------------------------- *)
(* Cell values of the uploaded sheets, as str() renders them.              *)
Nat2201A == <<"2","2","0","1","-","A">>
Nat2201B == <<"2","2","0","1","-","B">>
NatORD1  == <<"O","R","D","1">>
Nat2301A == <<"2","3","0","1","-","A">>
Nat2302B == <<"2","3","0","2","-","B">>
FloatCode == <<"3","0","8","9","5",".","0">>
NameOne  == <<"N","1">>
NameTwo  == <<"N","2">>
FocSt    == <<"x","s","t">>
FocStn   == <<"S","T","N">>
ProdP    == <<"P",".","0","1">>
QcQ      == <<"Q">>

Errs == {"none", "client", "server"}

ORow(code, no, fcode, fname, foc, qc, qty, date, se, we) ==
  [order_code |-> code, numerical_order |-> no, factory_code |-> fcode,
   factory_name |-> fname, factory_order_code |-> foc, product_name |-> ProdP,
   qc |-> qc, order_quantity |-> qty, delivered_quantity |-> qty - 1,
   order_date |-> date, stg_err |-> se, wh_err |-> we]

OrderRows ==
  { ORow(Nat2201A, 1, KDT,       NameOne, FocSt,  QcQ, 1, 1, "none",   "none"),
    ORow(Nat2201A, 1, KDT,       NameTwo, FocStn, QcQ, 2, 2, "none",   "none"),
    ORow(Nat2201A, 2, KDT,       NameTwo, FocSt,  QcQ, 1, 2, "none",   "none"),
    ORow(NatORD1,  1, FloatCode, NameOne, Null,   QcQ, 1, 1, "none",   "none"),
    ORow(NatORD1,  2, FloatCode, NameOne, Null,   QcQ, 1, 1, "none",   "none"),
    ORow(Nat2201B, 1, FloatCode, NameOne, Null,   QcQ, 1, 1, "server", "none"),
    ORow(Nat2201B, 2, FloatCode, NameTwo, Null,   QcQ, 1, 1, "none",   "client") }

SRow(code, fcode, foc, qc, qty, se, we) ==
  [sales_code |-> code, factory_code |-> fcode, factory_name |-> NameOne,
   factory_order_code |-> foc, product_name |-> ProdP, qc |-> qc,
   sales_quantity |-> qty, sales_date |-> 1, stg_err |-> se, wh_err |-> we]

SalesRows ==
  { SRow(Nat2301A, KDT,       FocSt,  QcQ,  1, "none",   "none"),
    SRow(Nat2301A, KDT,       FocStn, QcQ,  2, "none",   "none"),
    SRow(Nat2201A, FloatCode, Null,   QcQ,  1, "none",   "none"),
    SRow(Nat2302B, Null,      Null,   Null, 1, "none",   "none"),
    SRow(Nat2302B, FloatCode, Null,   QcQ,  1, "client", "none"),
    SRow(Nat2302B, FloatCode, Null,   QcQ,  1, "none",   "server") }

RawRows(k) == IF k = "order" THEN OrderRows ELSE SalesRows

SeqsUpTo(S, n) == UNION { [1..m -> S] : m \in 0..n }

ColumnCounts == {SalesColumns, SalesColumns + 1, OrderColumns}

(* ------------------------------ state --------------------------------- *)
Procs == {1, 2}

VARIABLES
  kind,          \* the relation family of this behaviour: "order" or "sales"
  clock,         \* datetime.now(), as far as rows store it
  runs,          \* runs started
  ingested,      \* raw rows read so far
  staging,       \* copr13 / copr23: a set of rows
  fact,          \* fact_order / fact_sales: a set of rows
  dim_factory,   \* dim_factory: a set of rows
  dim_product,   \* dim_product: a set of product names
  pc,            \* per run: the statement process_*_file has reached
  extract,       \* per run: the raw rows of the uploaded sheet
  df,            \* per run: df_copr13 / df after step 1, in row order
  latest_import, \* per run: the watermark read in step 3
  df_warehouse,  \* per run: rows of step 4, then the frame of step 5
  stats,         \* per run: the run report
  prev,          \* per run: extract and fact relation of the run completed just before
  ncolumns,      \* per upload: the number of columns of the uploaded sheet
  file_path,     \* per upload: file_path of the handler, 0 for None
  disk           \* the files under UPLOAD_DIR saved by the callers' latest uploads

vars == <<kind, clock, runs, ingested, staging, fact, dim_factory, dim_product,
          pc, extract, df, latest_import, df_warehouse, stats, prev,
          ncolumns, file_path, disk>>

NewStats == [staging_rows |-> 0, warehouse_rows |-> 0, conflicts |-> 0,
             errors |-> EmptyBag]
NoPrev == [extract |-> <<>>, fact |-> {}, valid |-> FALSE, left |-> {}]

Init ==
  /\ kind \in {"order", "sales"}
  /\ clock = 1
  /\ runs = 0
  /\ ingested = 0
  /\ staging = {}
  /\ fact = {}
  /\ dim_factory = {}
  /\ dim_product = {}
  /\ pc = [p \in Procs |-> "idle"]
  /\ extract = [p \in Procs |-> <<>>]
  /\ df = [p \in Procs |-> <<>>]
  /\ latest_import = [p \in Procs |-> Sentinel]
  /\ df_warehouse = [p \in Procs |-> {}]
  /\ stats = [p \in Procs |-> NewStats]
  /\ prev = [p \in Procs |-> NoPrev]
  /\ ncolumns = [p \in Procs |-> 0]
  /\ file_path = [p \in Procs |-> 0]
  /\ disk = {}

(* ----------------------------- Normalizer ----------------------------- *)
StagingRecord(code, date, fcode, fname, foc, pname, qc, qty, dqty, ts, se, we) ==
  [code |-> code, date |-> date, factory_code |-> fcode, factory_name |-> fname,
   factory_order_code |-> foc, product_name |-> pname, qc |-> qc,
   quantity |-> qty, delivered_quantity |-> dqty, import_timestamp |-> ts,
   stg_err |-> se, wh_err |-> we]

(* df_copr13['order_code'] + "-" + f"{numerical_order:04}" *)
OrderKeyNoSuffix(r) == r.order_code

OrderKey(r) == r.order_code \o <<"-">> \o Pad4(r.numerical_order)

OrderHasKey(r) == r.order_code # Null /\ r.numerical_order \in Nat

OrderRecord(r, ts) ==
  StagingRecord(OrderKey(r), r.order_date, CleanText(r.factory_code),
                r.factory_name, CleanText(r.factory_order_code),
                CleanText(r.product_name), CleanText(r.qc),
                r.order_quantity, r.delivered_quantity, ts, r.stg_err, r.wh_err)

OrderFrame(raw, ts) ==
  LET kept == SelectSeq(raw, OrderHasKey)
  IN  [i \in 1..Len(kept) |-> OrderRecord(kept[i], ts)]

SalesHasKey(r) == r.sales_code # Null

(* df.groupby("sales_code").cumcount() + 1 *)
CumCount(kept, i) ==
  Cardinality({j \in 1..i : kept[j].sales_code = kept[i].sales_code})

SalesKey(kept, i) ==
  CleanText(kept[i].sales_code \o <<"-">> \o Pad4(CumCount(kept, i)))

(* df['factory_code'].astype(str).str.replace('.0', '', regex=False) *)
AsStrClean(x, nullText) == ReplaceDotZero(IF x = Null THEN nullText ELSE x)

SalesRecord(kept, i, ts) ==
  LET r == kept[i]
  IN  StagingRecord(SalesKey(kept, i), r.sales_date,
                    CleanText(AsStrClean(r.factory_code, StrNan)),
                    CleanText(r.factory_name), CleanText(r.factory_order_code),
                    CleanText(r.product_name), CleanText(r.qc),
                    r.sales_quantity, 0, ts, r.stg_err, r.wh_err)

SalesFrame(raw, ts) ==
  LET kept == SelectSeq(raw, SalesHasKey)
  IN  [i \in 1..Len(kept) |-> SalesRecord(kept, i, ts)]

ExpectedColumnsSixteen(k) == IF k = "order" THEN SalesColumns + 1 ELSE SalesColumns

ExpectedColumns(k) == IF k = "order" THEN OrderColumns ELSE SalesColumns

Frame(k, raw, ts) == IF k = "order" THEN OrderFrame(raw, ts) ELSE SalesFrame(raw, ts)

ErrorEntry(stage, code) == <<stage, code>>

(* the handler has returned or raised, or was never called *)
Ended == {"idle", "done", "raised", "rejected", "interrupted"}

(* unique_filename = f"{original_name}_{timestamp}{file_extension}" with a  *)
(* timestamp of one-second resolution: a path of its own (the number of    *)
(* the upload), or the path of another caller's upload in flight when both *)
(* carry one file name within one second.                                  *)
PathChoices(p) ==
  {runs + 1} \cup { file_path[q] : q \in { r \in Procs \ {p} :
                                             pc[r] \notin Ended /\ file_path[r] # 0 } }

(* the file of p's previous upload is followed no further, unless another  *)
(* upload shares its path                                                  *)
Forgotten(p) ==
  IF \E q \in Procs \ {p} : file_path[q] = file_path[p] THEN {} ELSE {file_path[p]}

(* codes of the staging rows that carry the import_timestamp of p's run *)
StagedBy(p) ==
  { s.code : s \in { x \in staging :
                       \E i \in 1..Len(df[p]) :
                         df[p][i].import_timestamp = x.import_timestamp } }

(* what the run that starts now finds: the extract and fact relation of a  *)
(* completed run just before it, and the keys staged by runs that were     *)
(* interrupted since the last completed run                                *)
Before(p) ==
  IF pc[p] = "done"
  THEN [extract |-> extract[p], fact |-> fact, valid |-> TRUE, left |-> {}]
  ELSE [NoPrev EXCEPT !.left = IF pc[p] = "interrupted"
                                THEN prev[p].left \cup StagedBy(p)
                                ELSE prev[p].left]

(* validate_excel_file or the size checks of save_uploaded_file raise      *)
(* HTTPException(400) before the file is written                           *)
Refused(p) ==
  /\ runs' = runs + 1
  /\ prev' = [prev EXCEPT ![p] = Before(p)]
  /\ extract' = [extract EXCEPT ![p] = <<>>]
  /\ df' = [df EXCEPT ![p] = <<>>]
  /\ latest_import' = [latest_import EXCEPT ![p] = Sentinel]
  /\ df_warehouse' = [df_warehouse EXCEPT ![p] = {}]
  /\ stats' = [stats EXCEPT ![p] = NewStats]
  /\ ncolumns' = [ncolumns EXCEPT ![p] = 0]
  /\ file_path' = [file_path EXCEPT ![p] = 0]
  /\ pc' = [pc EXCEPT ![p] = "rejected"]
  /\ disk' = disk \ Forgotten(p)
  /\ UNCHANGED <<kind, clock, ingested, staging, fact, dim_factory, dim_product>>

(* upload_*_file from save_uploaded_file on, and process_*_file up to and  *)
(* including df['import_timestamp'] = datetime.now(); when the column      *)
(* assignment raises, the handler's except clause removes the file.  The   *)
(* clock advances when a row stores the timestamp read.                    *)
Normalized(p, path, ncols, raw) ==
  /\ runs' = runs + 1
  /\ ingested' = ingested + Len(raw)
  /\ clock' = IF ncols = ExpectedColumns(kind) /\ Frame(kind, raw, clock) # <<>>
              THEN clock + 1 ELSE clock
  /\ prev' = [prev EXCEPT ![p] = Before(p)]
  /\ extract' = [extract EXCEPT ![p] = raw]
  /\ latest_import' = [latest_import EXCEPT ![p] = Sentinel]
  /\ df_warehouse' = [df_warehouse EXCEPT ![p] = {}]
  /\ ncolumns' = [ncolumns EXCEPT ![p] = ncols]
  /\ file_path' = [file_path EXCEPT ![p] = path]
  /\ IF ncols = ExpectedColumns(kind)
     THEN /\ df' = [df EXCEPT ![p] = Frame(kind, raw, clock)]
          /\ stats' = [stats EXCEPT ![p] = NewStats]
          /\ disk' = (disk \ Forgotten(p)) \cup {path}
          /\ pc' = [pc EXCEPT ![p] = "normalized"]
     ELSE /\ df' = [df EXCEPT ![p] = <<>>]
          /\ stats' = [stats EXCEPT ![p] =
                         [NewStats EXCEPT !.errors = SetToBag({ErrorEntry("Processing", <<>>)})]]
          /\ disk' = (disk \ Forgotten(p)) \ {path}
          /\ pc' = [pc EXCEPT ![p] = "raised"]
  /\ UNCHANGED <<kind, staging, fact, dim_factory, dim_product>>

(* A sheet with the wrong number of columns is rejected whatever its rows: *)
(* it is drawn without rows.  The rows of all extracts together are at     *)
(* most limit.                                                             *)
NormalizeWithin(p, limit) ==
  /\ pc[p] \in Ended
  /\ runs < MaxRuns
  /\ \/ \E path \in PathChoices(p) :
          \E raw \in SeqsUpTo(RawRows(kind), limit - ingested) :
            Normalized(p, path, ExpectedColumns(kind), raw)
     \/ \E path \in PathChoices(p) :
          \E ncols \in ColumnCounts \ {ExpectedColumns(kind)} :
            Normalized(p, path, ncols, <<>>)
     \/ Refused(p)

(* an upload that passes the handler's checks with a sheet of the layout   *)
(* of its kind                                                             *)
Normalize(p) ==
  /\ pc[p] \in Ended
  /\ runs < MaxRuns
  /\ \E path \in PathChoices(p) :
       \E raw \in SeqsUpTo(RawRows(kind), MaxIngest - ingested) :
         Normalized(p, path, ExpectedColumns(kind), raw)

(* the caller goes away or the task is cancelled while the run awaits the  *)
(* database: no handler of the run executes, the transaction of the stage  *)
(* in progress is rolled back, the committed stages and the file stay      *)
Interrupt(p) ==
  /\ pc[p] \notin Ended
  /\ pc' = [pc EXCEPT ![p] = "interrupted"]
  /\ UNCHANGED <<kind, clock, runs, ingested, staging, fact, dim_factory,
                 dim_product, extract, df, latest_import, df_warehouse, stats,
                 prev, ncolumns, file_path, disk>>

(* -------------------------- Staging Upserter -------------------------- *)
(* INSERT INTO copr13 ... ON CONFLICT (order_code) DO UPDATE SET           *)
(*   order_quantity, delivered_quantity, import_timestamp = EXCLUDED...    *)
(* INSERT INTO copr23 ... ON CONFLICT (sales_code) DO NOTHING              *)
UpsertStagingAlwaysInsert(k, rel, rec) == rel \cup {rec}

UpsertStagingSalesUpdate(k, rel, rec) ==
  IF \E x \in rel : x.code = rec.code
  THEN { IF x.code = rec.code
         THEN [x EXCEPT !.quantity = rec.quantity,
                        !.delivered_quantity = rec.delivered_quantity,
                        !.import_timestamp = rec.import_timestamp]
         ELSE x : x \in rel }
  ELSE rel \cup {rec}

UpsertStaging(k, rel, rec) ==
  IF \E x \in rel : x.code = rec.code
  THEN IF k = "order"
       THEN { IF x.code = rec.code
              THEN [x EXCEPT !.quantity = rec.quantity,
                             !.delivered_quantity = rec.delivered_quantity,
                             !.import_timestamp = rec.import_timestamp]
              ELSE x : x \in rel }
       ELSE rel
  ELSE rel \cup {rec}

(* async with conn.transaction(): a statement the server rejects aborts    *)
(* the transaction; COMMIT of an aborted transaction rolls it back and     *)
(* raises nothing.                                                         *)
CommitLosesOnAbort(before, after, poisoned) == IF poisoned THEN {} ELSE after

Commit(before, after, poisoned) == IF poisoned THEN before ELSE after

(* One pass of "for _, row in df.iterrows()" with its try/except.  A row   *)
(* fails when the driver rejects an argument ("client": nothing is sent),  *)
(* when the server rejects the statement ("server"), or when the           *)
(* transaction is already aborted.  The statement has ON CONFLICT on the   *)
(* key, so UniqueViolationError is not raised and conflicts stays 0.       *)
StageStep(k, acc, rec) ==
  IF acc.poisoned \/ rec.stg_err # "none"
  THEN [acc EXCEPT !.poisoned = acc.poisoned \/ rec.stg_err = "server",
                   !.errors = acc.errors (+) SetToBag({ErrorEntry("Staging", rec.code)})]
  ELSE [acc EXCEPT !.rel = UpsertStaging(k, acc.rel, rec),
                   !.inserts = acc.inserts + 1]

RECURSIVE StageLoop(_, _, _, _)
StageLoop(k, frame, i, acc) ==
  IF i > Len(frame) THEN acc
  ELSE StageLoop(k, frame, i + 1, StageStep(k, acc, frame[i]))

StageUpsert(p) ==
  /\ pc[p] = "normalized"
  /\ LET out == StageLoop(kind, df[p], 1,
                           [rel |-> staging, poisoned |-> FALSE, inserts |-> 0,
                            errors |-> stats[p].errors])
     IN  /\ staging' = Commit(staging, out.rel, out.poisoned)
         /\ stats' = [stats EXCEPT ![p].staging_rows = out.inserts,
                                    ![p].conflicts = 0,
                                    ![p].errors = out.errors]
  /\ pc' = [pc EXCEPT ![p] = "staged"]
  /\ UNCHANGED <<kind, clock, runs, ingested, fact, dim_factory, dim_product,
                 extract, df, latest_import, df_warehouse, prev,
                 ncolumns, file_path, disk>>

(* -------------------------- Watermark Selector ------------------------ *)
(* SELECT COALESCE(MAX(import_timestamp), '1900-01-01'::timestamp) FROM fact_* *)
LatestImport(rel) ==
  IF rel = {} THEN Sentinel
  ELSE CHOOSE t \in {x.import_timestamp : x \in rel} :
         \A x \in rel : x.import_timestamp <= t

ReadWatermark(p) ==
  /\ pc[p] = "staged"
  /\ latest_import' = [latest_import EXCEPT ![p] = LatestImport(fact)]
  /\ pc' = [pc EXCEPT ![p] = "watermarked"]
  /\ UNCHANGED <<kind, clock, runs, ingested, staging, fact, dim_factory,
                 dim_product, extract, df, df_warehouse, stats, prev,
                 ncolumns, file_path, disk>>

(* the column list of staging_select_query *)
Selected(x) ==
  [code |-> x.code, date |-> x.date, factory_code |-> x.factory_code,
   factory_order_code |-> x.factory_order_code, product_name |-> x.product_name,
   qc |-> x.qc, quantity |-> x.quantity, delivered_quantity |-> x.delivered_quantity,
   import_timestamp |-> x.import_timestamp, wh_err |-> x.wh_err]

(* ... FROM copr13 / copr23 WHERE import_timestamp > $1 *)
NewRowsInclusive(rel, watermark) ==
  { Selected(x) : x \in {y \in rel : y.import_timestamp >= watermark} }

NewRowsAll(rel, watermark) == { Selected(x) : x \in rel }

NewRows(rel, watermark) ==
  { Selected(x) : x \in {y \in rel : y.import_timestamp > watermark} }

(* the selector without the 'No new data to load' return *)
SelectNewNoReturn(p) ==
  /\ pc[p] = "watermarked"
  /\ df_warehouse' = [df_warehouse EXCEPT ![p] = NewRows(staging, latest_import[p])]
  /\ pc' = [pc EXCEPT ![p] = "selected"]
  /\ UNCHANGED <<kind, clock, runs, ingested, staging, fact, dim_factory,
                 dim_product, extract, df, latest_import, stats, prev,
                 ncolumns, file_path, disk>>

SelectNew(p) ==
  /\ pc[p] = "watermarked"
  /\ df_warehouse' = [df_warehouse EXCEPT ![p] = NewRows(staging, latest_import[p])]
  /\ pc' = [pc EXCEPT ![p] = IF NewRows(staging, latest_import[p]) = {}
                             THEN "done" ELSE "selected"]
  /\ UNCHANGED <<kind, clock, runs, ingested, staging, fact, dim_factory,
                 dim_product, extract, df, latest_import, stats, prev,
                 ncolumns, file_path, disk>>

(* ---------------------- Business Filter & Remapper -------------------- *)
(* first_4_*_code == '2201' / .isin(['2301', '2302']) *)
PrefixAcceptedEitherKind(k, x) ==
  FirstToken(x.code) \in AcceptedPrefix("order") \cup AcceptedPrefix("sales")

PrefixAccepted(k, x) == FirstToken(x.code) \in AcceptedPrefix(k)

(* df_warehouse.dropna(subset=['qc']) *)
HasQcAlways(x) == TRUE

HasQc(x) == x.qc # Null

(* order: factory_code.astype(str).str.replace('.0', '');                  *)
(* sales: the text_columns_wh loop                                         *)
CleanForWarehouse(k, x) ==
  IF k = "order"
  THEN [x EXCEPT !.factory_code = AsStrClean(x.factory_code, StrNone)]
  ELSE [x EXCEPT !.factory_code = CleanText(x.factory_code),
                 !.product_name = CleanText(x.product_name),
                 !.qc = CleanText(x.qc),
                 !.factory_order_code = CleanText(x.factory_order_code),
                 !.code = CleanText(x.code)]

(* the four df_KDT.loc[...str.contains(marker, case=False)] assignments, in order *)
RemapCodeCaseSensitive(foc) ==
  LET f  == IF foc = Null THEN Temp ELSE foc
      Has(m) == \E i \in 1..Len(f) :
                  i + Len(m) - 1 <= Len(f) /\ SubSeq(f, i, i + Len(m) - 1) = m
      c1 == IF Has(MarkST) THEN CodeST ELSE KDT
      c2 == IF Has(MarkTN) THEN CodeTN ELSE c1
      c3 == IF Has(MarkBP) THEN CodeBP ELSE c2
      c4 == IF Has(MarkQT) THEN CodeQT ELSE c3
  IN  c4

RemapCodeFirstMatch(foc) ==
  LET f  == IF foc = Null THEN Temp ELSE foc
  IN  IF ContainsCI(f, MarkST) THEN CodeST
      ELSE IF ContainsCI(f, MarkTN) THEN CodeTN
      ELSE IF ContainsCI(f, MarkBP) THEN CodeBP
      ELSE IF ContainsCI(f, MarkQT) THEN CodeQT
      ELSE KDT

RemapCode(foc) ==
  LET f  == IF foc = Null THEN Temp ELSE foc
      c1 == IF ContainsCI(f, MarkST) THEN CodeST ELSE KDT
      c2 == IF ContainsCI(f, MarkTN) THEN CodeTN ELSE c1
      c3 == IF ContainsCI(f, MarkBP) THEN CodeBP ELSE c2
      c4 == IF ContainsCI(f, MarkQT) THEN CodeQT ELSE c3
  IN  c4

(* the lookup built from every row, not only from those with 30895.2 *)
MergeFixedEveryRow(frame) ==
  LET kdt == { [code |-> x.code, factory_code_fixed |-> RemapCode(x.factory_order_code)] :
               x \in frame }
  IN  UNION { IF \E f \in kdt : f.code = x.code
              THEN { [x EXCEPT !.factory_code = f.factory_code_fixed] :
                     f \in {g \in kdt : g.code = x.code} }
              ELSE {x} : x \in frame }

(* the merge with how='inner': rows without a corrected code are dropped *)
MergeFixedInner(frame) ==
  LET kdt == { [code |-> x.code, factory_code_fixed |-> RemapCode(x.factory_order_code)] :
               x \in {y \in frame : y.factory_code = KDT} }
  IN  UNION { { [x EXCEPT !.factory_code = f.factory_code_fixed] :
                f \in {g \in kdt : g.code = x.code} } : x \in frame }

(* df_KDT, merged back on the key with how='left', then combine_first *)
MergeFixed(frame) ==
  LET kdt == { [code |-> x.code, factory_code_fixed |-> RemapCode(x.factory_order_code)] :
               x \in {y \in frame : y.factory_code = KDT} }
  IN  UNION { IF \E f \in kdt : f.code = x.code
              THEN { [x EXCEPT !.factory_code = f.factory_code_fixed] :
                     f \in {g \in kdt : g.code = x.code} }
              ELSE {x} : x \in frame }

WarehouseRow(x, whts) ==
  [code |-> x.code, date |-> x.date, factory_code |-> x.factory_code,
   factory_order_code |-> x.factory_order_code, product_name |-> x.product_name,
   qc |-> x.qc, quantity |-> x.quantity, delivered_quantity |-> x.delivered_quantity,
   import_timestamp |-> x.import_timestamp, import_wh_timestamp |-> whts,
   wh_err |-> x.wh_err]

WarehouseFrame(k, rows, whts) ==
  LET kept    == { x \in rows : PrefixAccepted(k, x) /\ HasQc(x) }
      cleaned == { CleanForWarehouse(k, x) : x \in kept }
  IN  { WarehouseRow(x, whts) : x \in MergeFixed(cleaned) }

FilterRemap(p) ==
  /\ pc[p] = "selected"
  /\ df_warehouse' = [df_warehouse EXCEPT ![p] = WarehouseFrame(kind, df_warehouse[p], clock)]
  /\ clock' = clock + 1
  /\ pc' = [pc EXCEPT ![p] = "filtered"]
  /\ UNCHANGED <<kind, runs, ingested, staging, fact, dim_factory, dim_product,
                 extract, df, latest_import, stats, prev,
                 ncolumns, file_path, disk>>

(* ----------------------------- Fact Promoter -------------------------- *)
(* INSERT INTO fact_order ... ON CONFLICT (order_code) DO UPDATE SET       *)
(*   order_quantity, delivered_quantity, import_wh_timestamp = EXCLUDED... *)
(* INSERT INTO fact_sales ... ON CONFLICT (sales_code) DO UPDATE SET       *)
(*   sales_quantity, import_wh_timestamp = EXCLUDED...                     *)
UpsertFactAlwaysInsert(k, rel, row) == rel \cup {row}

UpsertFactReplace(k, rel, row) == {x \in rel : x.code # row.code} \cup {row}

UpsertFactKeepFirst(k, rel, row) ==
  IF \E x \in rel : x.code = row.code THEN rel ELSE rel \cup {row}

UpsertFact(k, rel, row) ==
  IF \E x \in rel : x.code = row.code
  THEN { IF x.code = row.code
         THEN [x EXCEPT !.quantity = row.quantity,
                        !.delivered_quantity =
                            IF k = "order" THEN row.delivered_quantity ELSE @,
                        !.import_wh_timestamp = row.import_wh_timestamp]
         ELSE x : x \in rel }
  ELSE rel \cup {row}

RECURSIVE UpsertAll(_, _, _)
UpsertAll(k, rel, todo) ==
  IF todo = {} THEN rel
  ELSE LET row == CHOOSE x \in todo : TRUE
       IN  UpsertAll(k, UpsertFact(k, rel, row), todo \ {row})

ErrorBag(stage, rows) == SetToBag({ ErrorEntry(stage, x.code) : x \in rows })

(* "for _, row in df_warehouse.iterrows()" inside one transaction.  The    *)
(* rows come from a SELECT without ORDER BY: any order.  Without a         *)
(* server-side failure every accepted row is upserted.  With one, the      *)
(* rows executed before it (any set of accepted rows) were counted, every  *)
(* other row is an error, and the transaction rolls back.                  *)
Promote(p) ==
  /\ pc[p] = "filtered"
  /\ LET frame    == df_warehouse[p]
         good     == { x \in frame : x.wh_err = "none" }
         poisoned == \E x \in frame : x.wh_err = "server"
     IN  \E executed \in SUBSET good :
           /\ ~poisoned => executed = good
           /\ fact' = Commit(fact, UpsertAll(kind, fact, executed), poisoned)
           /\ stats' = [stats EXCEPT
                          ![p].warehouse_rows = Cardinality(executed),
                          ![p].errors = @ (+) ErrorBag("Warehouse", frame \ executed)]
  /\ pc' = [pc EXCEPT ![p] = IF kind = "order" THEN "promoted" ELSE "done"]
  /\ UNCHANGED <<kind, clock, runs, ingested, staging, dim_factory, dim_product,
                 extract, df, latest_import, df_warehouse, prev,
                 ncolumns, file_path, disk>>

(* --------------------------- Dimension Reconciler --------------------- *)
(* SELECT DISTINCT ON (factory_code) REPLACE(factory_code, '.0', ''), ...  *)
(* FROM copr13 WHERE factory_code IS NOT NULL                              *)
(* ORDER BY factory_code, order_date DESC NULLS LAST: per code one row of  *)
(* the latest order_date (0 is NULL), any of them on a tie.                *)
FactoryCandidates(rel, code) ==
  LET same == { x \in rel : x.factory_code # Null /\ ReplaceDotZero(x.factory_code) = code }
  IN  { x \in same : \A y \in same : y.date <= x.date }

FactoryCodes(rel) ==
  { ReplaceDotZero(x.factory_code) : x \in {y \in rel : y.factory_code # Null} }

DimFactoryRow(code, x) ==
  [factory_code |-> code, factory_name |-> x.factory_name,
   is_active |-> TRUE, has_onsite |-> FALSE]

(* INSERT INTO dim_factory ... ON CONFLICT (factory_code) DO NOTHING *)
InsertFactoryOverwrite(dim, row) ==
  {d \in dim : d.factory_code # row.factory_code} \cup {row}

InsertFactory(dim, row) ==
  IF \E d \in dim : d.factory_code = row.factory_code THEN dim ELSE dim \cup {row}

MissingFactoryCodes(dim, rel) ==
  { c \in FactoryCodes(rel) : ~\E d \in dim : d.factory_code = c }

RECURSIVE InsertFactories(_, _, _)
InsertFactories(dim, pick, codes) ==
  IF codes = {} THEN dim
  ELSE LET c == CHOOSE x \in codes : TRUE
       IN  InsertFactories(InsertFactory(dim, DimFactoryRow(c, pick[c])), pick, codes \ {c})

UpdateFactoryList(p) ==
  /\ pc[p] = "promoted"
  /\ \E pick \in [FactoryCodes(staging) -> staging] :
       /\ \A c \in FactoryCodes(staging) : pick[c] \in FactoryCandidates(staging, c)
       /\ dim_factory' = InsertFactories(dim_factory, pick, FactoryCodes(staging))
  /\ pc' = [pc EXCEPT ![p] = "factory_listed"]
  /\ UNCHANGED <<kind, clock, runs, ingested, staging, fact, dim_product,
                 extract, df, latest_import, df_warehouse, stats, prev,
                 ncolumns, file_path, disk>>

(* INSERT INTO dim_product (product_name) SELECT DISTINCT ON (product_name) *)
(* ... WHERE product_name IS NOT NULL ON CONFLICT (product_name) DO NOTHING *)
InsertProducts(dim, rel) ==
  dim \cup { x.product_name : x \in {y \in rel : y.product_name # Null} }

UpdateProductListEarly(p) ==
  /\ pc[p] = "promoted"
  /\ dim_product' = InsertProducts(dim_product, staging)
  /\ pc' = [pc EXCEPT ![p] = "done"]
  /\ UNCHANGED <<kind, clock, runs, ingested, staging, fact, dim_factory,
                 extract, df, latest_import, df_warehouse, stats, prev,
                 ncolumns, file_path, disk>>

UpdateProductList(p) ==
  /\ pc[p] = "factory_listed"
  /\ dim_product' = InsertProducts(dim_product, staging)
  /\ pc' = [pc EXCEPT ![p] = "done"]
  /\ UNCHANGED <<kind, clock, runs, ingested, staging, fact, dim_factory,
                 extract, df, latest_import, df_warehouse, stats, prev,
                 ncolumns, file_path, disk>>

(* --------------------------- specification ---------------------------- *)
Run(p) ==
  \/ Normalize(p)
  \/ StageUpsert(p)
  \/ ReadWatermark(p)
  \/ SelectNew(p)
  \/ FilterRemap(p)
  \/ Promote(p)
  \/ UpdateFactoryList(p)
  \/ UpdateProductList(p)

(* one caller, well-formed sheets: runs follow one another on one          *)
(* connection                                                              *)
Next == Run(1)

Spec == Init /\ [][Next]_vars

(* one caller whose uploads may be rejected and whose runs may be          *)
(* interrupted                                                             *)
NextResume ==
  \/ pc[1] \in Ended /\ NormalizeWithin(1, MaxResumeIngest)
  \/ pc[1] \notin Ended /\ Run(1)
  \/ Interrupt(1)

SpecResume == Init /\ [][NextResume]_vars

(* two callers, one upload each, on two pooled connections: the stages of  *)
(* the two runs interleave, each stage being one transaction               *)
NextConcurrent ==
  \E p \in Procs :
    \/ pc[p] = "idle" /\ NormalizeWithin(p, MaxConcurrentIngest)
    \/ pc[p] \notin Ended /\ Run(p)

SpecConcurrent == Init /\ [][NextConcurrent]_vars

(* one caller, one upload of a sheet whose rows differ in factory_code and *)
(* factory_order_code only: the values the remapper tells apart            *)
Companions ==
  { Null, <<"x">>, <<"S","T">>, <<"s","t">>, <<"T","N">>, <<"B","P">>, <<"Q","T">>,
    <<"S","T","N">>, <<"T","N","S","T">>, <<"B","P","T","N">>,
    <<"Q","T","B","P">>, <<"S","T","Q","T">> }

RemapRows(k) ==
  IF k = "order"
  THEN { ORow(Nat2201A, 1, fc, NameOne, foc, QcQ, 1, 1, "none", "none") :
           fc \in {KDT, FloatCode}, foc \in Companions }
  ELSE { SRow(Nat2301A, fc, foc, QcQ, 1, "none", "none") :
           fc \in {KDT, FloatCode}, foc \in Companions }

NormalizeRemap(p) ==
  /\ pc[p] = "idle"
  /\ runs = 0
  /\ \E raw \in SeqsUpTo(RemapRows(kind), MaxRemapRows) :
       Normalized(p, runs + 1, ExpectedColumns(kind), raw)

NextRemap ==
  \/ NormalizeRemap(1)
  \/ pc[1] \notin Ended /\ Run(1)

SpecRemap == Init /\ [][NextRemap]_vars

(* one caller, sheets whose rows differ in the natural key and the         *)
(* quantity: keys as the source writes them, and a key that still holds    *)
(* ".0" after one str.replace('.0', '')                                    *)
NatDotted == <<"2","3","0","1","-",".",".","0","0">>

KeyRows(k) ==
  IF k = "order"
  THEN { ORow(Nat2201A, n, FloatCode, NameOne, Null, QcQ, q, 1, "none", "none") :
           n \in {1, 2}, q \in {1, 2} }
  ELSE { SRow(c, FloatCode, Null, QcQ, q, "none", "none") :
           c \in {Nat2301A, NatDotted}, q \in {1, 2} }

NormalizeKeys(p) ==
  /\ pc[p] \in Ended
  /\ runs < MaxRuns
  /\ \E raw \in SeqsUpTo(KeyRows(kind), MaxKeyIngest - ingested) :
       Normalized(p, runs + 1, ExpectedColumns(kind), raw)

NextKeys ==
  \/ NormalizeKeys(1)
  \/ pc[1] \notin Ended /\ Run(1)

SpecKeys == Init /\ [][NextKeys]_vars

(* ------------------------------ claims -------------------------------- *)
Keys(rel) == { x.code : x \in rel }
Measures(rel) == { <<x.code, x.quantity, x.delivered_quantity>> : x \in rel }
NoErrors(p) == stats[p].errors = EmptyBag
StartsWith(s, t) == Len(s) >= Len(t) /\ SubSeq(s, 1, Len(t)) = t
HighWater(rel, t) ==
  IF rel = {} THEN t = Sentinel
  ELSE /\ \E x \in rel : x.import_timestamp = t
       /\ \A x \in rel : x.import_timestamp <= t

(* C1: idempotence.  When a run has completed on the same extract as the   *)
(* run completed just before it, the fact relation holds the same business *)
(* keys with the same measure values and the same number of rows as after  *)
(* the first of the two: the second run's promotions were conflict-updates *)
(* of existing fact rows, never new rows.                                  *)
C1_Idempotent ==
  \A p \in Procs :
    (pc[p] = "done" /\ prev[p].valid /\ prev[p].extract = extract[p]) =>
      /\ Measures(fact) = Measures(prev[p].fact)
      /\ Cardinality(fact) = Cardinality(prev[p].fact)
      /\ Cardinality(Keys(fact)) = Cardinality(fact)

C1_Witness ==
  \E p \in Procs :
    /\ pc[p] = "done" /\ prev[p].valid /\ prev[p].extract = extract[p]
    /\ extract[p] # <<>>
    /\ stats[p].warehouse_rows > 0
    /\ \E x \in fact : x.import_wh_timestamp > x.import_timestamp + 1

(* C2: watermark monotonicity.  No step of any run (promotion,             *)
(* conflict-update, failed stage) lowers max(import_timestamp) of the fact *)
(* relation, so it never decreases from the end of one run to the end of   *)
(* the next.                                                               *)
C2_WatermarkMonotone ==
  [][\A t \in 0..clock : HighWater(fact, t) =>
        \E u \in t..clock : HighWater(fact', u)]_vars

C2_Witness ==
  /\ \E x, y \in fact : x.import_timestamp < y.import_timestamp
  /\ \E p \in Procs : pc[p] = "done" /\ ~NoErrors(p)

(* C3: watermark selection.  The watermark a run has read is the largest   *)
(* import_timestamp of the fact relation, or the sentinel 1900-01-01 when  *)
(* the fact relation is empty, and the rows the run has selected are       *)
(* exactly the staging rows whose import_timestamp is strictly greater: a  *)
(* staging row at or below the watermark is not among them.                *)
C3_WatermarkSelection ==
  \A p \in Procs :
    /\ pc[p] \in {"watermarked", "selected"} => HighWater(fact, latest_import[p])
    /\ pc[p] = "selected" =>
         /\ \A s \in staging :
              (s.import_timestamp > latest_import[p]) <=>
              (\E r \in df_warehouse[p] :
                 r.code = s.code /\ r.import_timestamp = s.import_timestamp)
         /\ \A r \in df_warehouse[p] :
              /\ r.import_timestamp > latest_import[p]
              /\ \E s \in staging : r.code = s.code /\ r.quantity = s.quantity

C3_Witness ==
  \E p \in Procs :
    /\ pc[p] = "selected"
    /\ latest_import[p] > Sentinel
    /\ \E s \in staging : s.import_timestamp = latest_import[p]
    /\ \E s \in staging : s.import_timestamp < latest_import[p]
    /\ df_warehouse[p] # {}

(* C4: filter correctness.  No fact row has a business key whose token     *)
(* before the first "-" is outside the accepted set of its kind: 2201 for  *)
(* order, 2301 and 2302 for sales.                                         *)
C4_FilterCorrect ==
  \A x \in fact :
    IF kind = "order"
    THEN StartsWith(x.code, <<"2","2","0","1","-">>)
    ELSE \/ StartsWith(x.code, <<"2","3","0","1","-">>)
         \/ StartsWith(x.code, <<"2","3","0","2","-">>)

C4_Witness ==
  \E p \in Procs :
    /\ pc[p] = "done"
    /\ stats[p].warehouse_rows > 0
    /\ \E s \in staging :
         /\ s.import_timestamp > latest_import[p]
         /\ s.qc # Null /\ s.wh_err = "none"
         /\ ~StartsWith(s.code, <<"2","2","0","1","-">>)
         /\ ~StartsWith(s.code, <<"2","3","0","1","-">>)
         /\ ~StartsWith(s.code, <<"2","3","0","2","-">>)
         /\ s.code \notin Keys(fact)

HasMarker(text, marker) == ContainsCI(text, marker)

(* C5 as claimed: every fact row whose staging row has factory code        *)
(* 30895.2 and a factory_order_code containing "ST" (any case) carries     *)
(* the factory code 30895.1.                                               *)
C5_Original ==
  \A f \in fact : \A s \in staging :
    (s.code = f.code /\ s.factory_code = KDT /\ HasMarker(s.factory_order_code, MarkST))
      => f.factory_code = <<"3","0","8","9","5",".","1">>

(* C5 amended: every fact row whose staging row has factory code 30895.2   *)
(* and a factory_order_code containing "ST" (any case) and none of "TN",   *)
(* "BP", "QT" carries the factory code 30895.1.                            *)
C5_RemapST ==
  \A f \in fact :
    f.factory_code # <<"3","0","8","9","5",".","1">> =>
      \A s \in staging :
        (s.code = f.code /\ s.factory_code = KDT) =>
          \/ ~HasMarker(s.factory_order_code, MarkST)
          \/ HasMarker(s.factory_order_code, MarkTN)
          \/ HasMarker(s.factory_order_code, MarkBP)
          \/ HasMarker(s.factory_order_code, MarkQT)

C5_Witness ==
  \E f \in fact : \E s \in staging :
    /\ s.code = f.code /\ s.factory_code = KDT
    /\ s.factory_order_code = <<"x","s","t">>
    /\ f.factory_code = <<"3","0","8","9","5",".","1">>

(* C6: dimension first-write-wins.  No step changes or removes a row of    *)
(* dim_factory or dim_product once it exists, and dim_factory never holds  *)
(* two rows for one factory code.                                          *)
C6_DimFirstWriteWins ==
  [][ /\ \A d \in dim_factory : d \in dim_factory'
      /\ \A n \in dim_product : n \in dim_product'
      /\ \A d, e \in dim_factory' : d.factory_code = e.factory_code => d = e ]_vars

C6_Witness ==
  /\ \E p \in Procs : pc[p] = "done" /\ stats[p].warehouse_rows > 0
  /\ runs >= 2
  /\ \E d \in dim_factory : \E s \in staging :
       /\ s.factory_code = d.factory_code
       /\ s.factory_name # d.factory_name
       /\ \A t \in staging : t.factory_code = d.factory_code => t.date <= s.date
       /\ \E t \in staging :
            t.factory_code = d.factory_code /\ t.factory_name = d.factory_name
                                          /\ t.date < s.date

OneFailure(frame) ==
  Cardinality({i \in 1..Len(frame) : frame[i].stg_err # "none"}) = 1

(* C7 as claimed: when the insert of exactly one record of a batch fails,  *)
(* that record is in the errors list and every other record of the batch,  *)
(* before and after it, is in the staging relation when the stage ends.    *)
C7_RowIsolation ==
  \A p \in Procs :
    (pc[p] = "staged" /\ OneFailure(df[p])) =>
      \A i \in 1..Len(df[p]) :
        IF df[p][i].stg_err # "none"
        THEN BagIn(<<"Staging", df[p][i].code>>, stats[p].errors)
        ELSE \E s \in staging :
               s.code = df[p][i].code
               /\ (kind = "order" => s.import_timestamp = df[p][i].import_timestamp)

TwoRowsOneKey(p) ==
  /\ kind = "order"
  /\ Len(extract[p]) = 2
  /\ extract[p][1].order_code = extract[p][2].order_code
  /\ extract[p][1].numerical_order = 1
  /\ extract[p][2].numerical_order = 2

KeyOne(p) == extract[p][1].order_code \o <<"-","0","0","0","1">>
KeyTwo(p) == extract[p][1].order_code \o <<"-","0","0","0","2">>
RowsOf(rel, code) == { x \in rel : x.code = code }

(* C8 as claimed: an order extract of two rows sharing one natural key     *)
(* with sequence numbers 1 and 2 gives the staging keys key-0001 and       *)
(* key-0002, and a completed run without errors has promoted both to two   *)
(* distinct fact rows.                                                     *)
C8_Original ==
  \A p \in Procs :
    (TwoRowsOneKey(p) /\ pc[p] = "done" /\ NoErrors(p)) =>
      /\ Cardinality(RowsOf(staging, KeyOne(p))) = 1
      /\ Cardinality(RowsOf(staging, KeyTwo(p))) = 1
      /\ Cardinality(RowsOf(fact, KeyOne(p))) = 1
      /\ Cardinality(RowsOf(fact, KeyTwo(p))) = 1

(* C8 amended: such an extract is normalized to the two business keys      *)
(* key-0001 and key-0002; after a completed run without errors both are    *)
(* staged, and both are promoted to two distinct fact rows when the key's  *)
(* prefix is the accepted 2201 and the staged rows carry a qc, while with  *)
(* another prefix (the spec's "ORD1") neither is in the fact relation.     *)
C8_KeySynthesis ==
  \A p \in Procs :
    TwoRowsOneKey(p) =>
      /\ pc[p] \notin {"idle", "raised"} =>
           /\ Len(df[p]) = 2
           /\ df[p][1].code = KeyOne(p)
           /\ df[p][2].code = KeyTwo(p)
      /\ (pc[p] = "done" /\ NoErrors(p)) =>
           /\ Cardinality(RowsOf(staging, KeyOne(p))) = 1
           /\ Cardinality(RowsOf(staging, KeyTwo(p))) = 1
           /\ IF StartsWith(KeyOne(p), <<"2","2","0","1","-">>)
              THEN (\A s \in RowsOf(staging, KeyOne(p)) \cup RowsOf(staging, KeyTwo(p)) :
                      s.qc # Null)
                   => /\ Cardinality(RowsOf(fact, KeyOne(p))) = 1
                      /\ Cardinality(RowsOf(fact, KeyTwo(p))) = 1
              ELSE /\ RowsOf(fact, KeyOne(p)) = {}
                   /\ RowsOf(fact, KeyTwo(p)) = {}

C8_Witness ==
  \E p \in Procs :
    /\ TwoRowsOneKey(p) /\ pc[p] = "done" /\ NoErrors(p)
    /\ stats[p].warehouse_rows = 2
    /\ Cardinality(RowsOf(fact, KeyOne(p))) = 1
    /\ Cardinality(RowsOf(fact, KeyTwo(p))) = 1

UniqueKeys(rel) == \A x, y \in rel : x.code = y.code => x = y
StagedNow(p) == pc[p] = "normalized" /\ pc'[p] = "staged" /\ stats'[p].errors = EmptyBag
LastOf(frame, code) ==
  frame[CHOOSE i \in 1..Len(frame) :
          /\ frame[i].code = code
          /\ \A j \in (i + 1)..Len(frame) : frame[j].code # code]

(* C9 as claimed: the staging relation never holds two rows for one        *)
(* business key, and a staging stage (without errors) that meets an        *)
(* already staged key leaves one row for it carrying the re-ingested       *)
(* quantity and the new run's import_timestamp.                            *)
C9_Original ==
  [][ /\ UniqueKeys(staging')
      /\ \A p \in Procs : StagedNow(p) =>
           \A i \in 1..Len(df[p]) :
             df[p][i].code \in Keys(staging) =>
               \E s \in staging' :
                 /\ s.code = df[p][i].code
                 /\ s.quantity = LastOf(df[p], s.code).quantity
                 /\ s.delivered_quantity = LastOf(df[p], s.code).delivered_quantity
                 /\ s.import_timestamp = df[p][i].import_timestamp ]_vars

(* C9 amended: the staging relation never holds two rows for one business  *)
(* key; a staging stage without errors that meets an already staged key    *)
(* adds no row, and for the order kind the row takes the re-ingested       *)
(* quantities and the new run's import_timestamp, while for the sales kind *)
(* the existing row is left exactly as it was.                             *)
C9_StagingUpsert ==
  [][ /\ UniqueKeys(staging')
      /\ \A p \in Procs : StagedNow(p) =>
           \A i \in 1..Len(df[p]) :
             df[p][i].code \in Keys(staging) =>
               /\ Cardinality(RowsOf(staging', df[p][i].code)) = 1
               /\ IF kind = "order"
                  THEN \E s \in staging' :
                         /\ s.code = df[p][i].code
                         /\ s.quantity = LastOf(df[p], s.code).quantity
                         /\ s.delivered_quantity = LastOf(df[p], s.code).delivered_quantity
                         /\ s.import_timestamp = df[p][i].import_timestamp
                  ELSE RowsOf(staging', df[p][i].code) = RowsOf(staging, df[p][i].code) ]_vars

C9_Witness ==
  \E p \in Procs :
    /\ kind = "order" /\ pc[p] = "staged" /\ NoErrors(p)
    /\ runs >= 2 /\ Len(df[p]) = 1
    /\ \E s \in staging :
         /\ s.code = df[p][1].code
         /\ s.factory_name # df[p][1].factory_name
         /\ s.quantity = df[p][1].quantity
         /\ s.import_timestamp = df[p][1].import_timestamp
    /\ Cardinality(staging) = 1

Immutable(x) ==
  [code |-> x.code, date |-> x.date, factory_code |-> x.factory_code,
   factory_order_code |-> x.factory_order_code, product_name |-> x.product_name,
   qc |-> x.qc, import_timestamp |-> x.import_timestamp]

(* C10: fact conflict rule.  Every fact row stays in the fact relation     *)
(* under its business key, and a step changes at most its measure fields   *)
(* and import_wh_timestamp: the factory code, import_timestamp and every   *)
(* other field keep the values of the first promotion.                     *)
C10_FactConflictRule ==
  [][ \A x \in fact :
        /\ Cardinality(RowsOf(fact', x.code)) = 1
        /\ \A y \in RowsOf(fact', x.code) : Immutable(y) = Immutable(x) ]_vars

C10_Witness ==
  \E p \in Procs :
    /\ pc[p] = "done" /\ stats[p].warehouse_rows > 0 /\ runs >= 2
    /\ \E f \in fact : \E s \in staging :
         /\ s.code = f.code
         /\ s.import_timestamp > f.import_timestamp
         /\ f.import_wh_timestamp > s.import_timestamp
         /\ f.quantity = s.quantity
         /\ \E g \in prev[p].fact : g.code = f.code /\ g.quantity # f.quantity

(* C11 as claimed: a run returns its report only from the Dimension        *)
(* Reconciler for product, the last of the seven stages.                   *)
C11_Original ==
  [][ \A p \in Procs :
        (pc'[p] = "done" /\ pc[p] # "done") => pc[p] = "factory_listed" ]_vars

(* C11 amended: the stages of a run follow one another in the order        *)
(* Normalizer, Staging Upserter, Watermark Selector, Business Filter &     *)
(* Remapper, Fact Promoter, Dimension Reconciler for factory, then for     *)
(* product, none entered before the one before it has ended; an order run  *)
(* that selected new rows returns its report after the last of them, a     *)
(* sales run returns it after the Fact Promoter, and a run of either kind  *)
(* whose Watermark Selector selected no row returns it right there.        *)
C11_Orchestration ==
  [][ \A p \in Procs :
        pc'[p] # pc[p] =>
          /\ pc'[p] \in {"normalized", "raised", "rejected"} => pc[p] \in Ended
          /\ pc'[p] = "staged" => pc[p] = "normalized"
          /\ pc'[p] = "watermarked" => pc[p] = "staged"
          /\ pc'[p] = "selected" => pc[p] = "watermarked" /\ df_warehouse'[p] # {}
          /\ pc'[p] = "filtered" => pc[p] = "selected"
          /\ pc'[p] = "promoted" => pc[p] = "filtered" /\ kind = "order"
          /\ pc'[p] = "factory_listed" => pc[p] = "promoted"
          /\ pc'[p] = "done" =>
               \/ pc[p] = "factory_listed" /\ kind = "order"
               \/ pc[p] = "filtered" /\ kind = "sales"
               \/ pc[p] = "watermarked" /\ df_warehouse'[p] = {} ]_vars

C11_Witness ==
  \E p \in Procs :
    /\ pc[p] = "done" /\ kind = "order" /\ runs = 1
    /\ stats[p].staging_rows = 2 /\ stats[p].warehouse_rows = 1
    /\ dim_factory # {} /\ dim_product # {}

AllStagingFailed(p) ==
  /\ df[p] # <<>>
  /\ \A i \in 1..Len(df[p]) : BagIn(<<"Staging", df[p][i].code>>, stats[p].errors)

NothingStaged(p) == df[p] = <<>> \/ AllStagingFailed(p)

Promotable(p) ==
  { s \in staging : /\ s.import_timestamp > latest_import[p]
                    /\ PrefixAccepted(kind, s) /\ HasQc(s) }

SheetRead(p) == pc[p] \notin Ended \/ pc[p] = "raised"

(* C13 as claimed: an extract is rejected with a raised failure exactly    *)
(* when its column count differs from 16 for the order kind and from 15    *)
(* for the sales kind.                                                     *)
C13_Original ==
  \A p \in Procs :
    (SheetRead(p) /\ pc[p] # "interrupted") =>
      (pc[p] = "raised" <=> ncolumns[p] # (IF kind = "order" THEN 16 ELSE 15))

(* C13 amended: an extract whose column count differs from the layout of   *)
(* its kind, 17 columns for the order kind and 15 for the sales kind, is   *)
(* rejected with a raised failure that is recorded in the report, in a     *)
(* step that writes no staging, fact or dimension row and after which the  *)
(* run takes no further step; an extract with exactly that column count    *)
(* is not rejected.                                                        *)
C13_ColumnCount ==
  [][ \A p \in Procs :
        /\ (pc'[p] # pc[p] /\ pc'[p] \in {"normalized", "raised"}) =>
             /\ pc'[p] = "raised" <=>
                  ncolumns'[p] # (IF kind = "order" THEN 17 ELSE 15)
             /\ pc'[p] = "raised" =>
                  /\ staging' = staging /\ fact' = fact
                  /\ dim_factory' = dim_factory /\ dim_product' = dim_product
                  /\ stats'[p].errors # EmptyBag
        /\ (pc[p] = "raised" /\ pc'[p] # pc[p]) =>
             pc'[p] \in {"normalized", "raised", "rejected"} ]_vars

C13_Witness ==
  \E p \in Procs :
    /\ pc[p] = "raised" /\ kind = "order" /\ ncolumns[p] = 16
    /\ staging # {} /\ fact # {} /\ dim_factory # {}
    /\ ~NoErrors(p)

(* C14: every upload ends in exactly one of two outcomes: a success        *)
(* response carrying the run report, with the saved file kept on disk, or  *)
(* a rejection after which no file saved for this upload remains on disk.  *)
C14_UploadOutcome ==
  \A p \in Procs :
    /\ pc[p] = "done" => file_path[p] \in disk
    /\ pc[p] \in {"raised", "rejected"} => file_path[p] \notin disk

(* staging rows written by runs that were interrupted since the last       *)
(* completed run, which pass the filters of the kind                       *)
LeftToPromote(p) ==
  { s \in staging : s.code \in prev[p].left /\ PrefixAccepted(kind, s) /\ HasQc(s) }

(* C15: the next complete run after an interrupted one, with any extract,  *)
(* promotes every staging row that the interrupted run left unpromoted and *)
(* that passes the filters: when it ends, each such row has its fact row.  *)
C15_SafeResume ==
  \A p \in Procs :
    pc[p] = "done" =>
      \A s \in LeftToPromote(p) :
        \E f \in fact : f.code = CleanForWarehouse(kind, s).code

(* another run is in flight on its own connection *)
Overlap(p) == \E q \in Procs \ {p} : pc[q] \notin Ended
PromotedNow(p) ==
  pc[p] = "filtered" /\ pc'[p] \in {"promoted", "done"} /\ stats'[p].errors = stats[p].errors

(* C16 as claimed: when a run commits its upserts while another run is in  *)
(* flight, every key it upserted has exactly one row in the relation,      *)
(* staging or fact, and that row carries the measure values this run, the  *)
(* last writer, wrote.                                                     *)
C16_Original ==
  [][ \A p \in Procs :
        /\ (StagedNow(p) /\ Overlap(p)) =>
             \A i \in 1..Len(df[p]) :
               \E s \in staging' :
                 /\ RowsOf(staging', df[p][i].code) = {s}
                 /\ s.quantity = LastOf(df[p], s.code).quantity
        /\ (PromotedNow(p) /\ Overlap(p)) =>
             \A x \in df_warehouse[p] :
               \E f \in fact' :
                 /\ RowsOf(fact', x.code) = {f}
                 /\ f.quantity = x.quantity ]_vars

(* C16 amended: when a run commits its upserts while another run is in     *)
(* flight, every key it upserted has exactly one row in the relation.  In  *)
(* the order staging relation and in both fact relations that row carries  *)
(* the measure values of this run, the last writer; in the sales staging   *)
(* relation a key that was already staged keeps the row of the first       *)
(* writer unchanged, and only a new key takes this run's values.           *)
C16_ConcurrentUpserts ==
  [][ \A p \in Procs :
        /\ (StagedNow(p) /\ Overlap(p)) =>
             \A i \in 1..Len(df[p]) :
               \E s \in staging' :
                 /\ RowsOf(staging', df[p][i].code) = {s}
                 /\ IF kind = "sales" /\ s.code \in Keys(staging)
                    THEN s \in staging
                    ELSE s.quantity = LastOf(df[p], s.code).quantity
        /\ (PromotedNow(p) /\ Overlap(p)) =>
             \A x \in df_warehouse[p] :
               \E f \in fact' :
                 /\ RowsOf(fact', x.code) = {f}
                 /\ f.quantity = x.quantity ]_vars

(* both runs staged one key with different quantities; the run that read   *)
(* the clock first committed last, and its values are in the row           *)
C16_Witness ==
  /\ kind = "order" /\ pc[1] = "staged" /\ pc[2] \in {"staged", "watermarked"}
  /\ NoErrors(1) /\ NoErrors(2)
  /\ Len(df[1]) = 1 /\ Len(df[2]) = 1
  /\ df[1][1].code = df[2][1].code
  /\ df[1][1].quantity # df[2][1].quantity
  /\ df[1][1].import_timestamp < df[2][1].import_timestamp
  /\ \E s \in staging :
       /\ staging = {s}
       /\ s.code = df[1][1].code
       /\ s.quantity = df[1][1].quantity
       /\ s.import_timestamp = df[1][1].import_timestamp

(* record i of the frame ends the staging stage as failed: its own         *)
(* statement is rejected, or the transaction was aborted before it         *)
FailedAt(frame, i) ==
  frame[i].stg_err # "none" \/ \E j \in 1..i : frame[j].stg_err = "server"
(* record i meets its business key in the staging relation *)
ConflictedAt(rel, frame, i) ==
  /\ ~FailedAt(frame, i)
  /\ \/ frame[i].code \in Keys(rel)
     \/ \E j \in 1..(i - 1) : ~FailedAt(frame, j) /\ frame[j].code = frame[i].code

(* C17: each normalized record ends the staging stage as inserted,         *)
(* conflicted or failed; the report's conflicts is the number of records   *)
(* whose business key already existed in the staging relation,             *)
(* staging_rows the number newly inserted, and errors holds one entry per  *)
(* failed record.                                                          *)
C17_StagingCounts ==
  [][ \A p \in Procs :
        (pc[p] = "normalized" /\ pc'[p] = "staged") =>
          LET n          == Len(df[p])
              failed     == { i \in 1..n : FailedAt(df[p], i) }
              conflicted == { i \in 1..n : ConflictedAt(staging, df[p], i) }
          IN  /\ BagCardinality(stats'[p].errors) = Cardinality(failed)
              /\ stats'[p].conflicts = Cardinality(conflicted)
              /\ stats'[p].staging_rows = n - Cardinality(failed) - Cardinality(conflicted)
              /\ stats'[p].staging_rows = Cardinality(staging') - Cardinality(staging)
    ]_vars

(* C18: a fact insert that fails for one row is appended to the report's   *)
(* errors and is not raised; every other filtered row of the run is        *)
(* promoted, and warehouse_rows is the number of rows whose insert or      *)
(* conflict-update succeeded and that are in the fact relation when the    *)
(* stage ends.                                                             *)
C18_PromoterIsolation ==
  [][ \A p \in Procs :
        (pc[p] = "filtered" /\ pc'[p] # pc[p]) =>
          LET frame == df_warehouse[p]
              good  == { x \in frame : x.wh_err = "none" }
          IN  /\ pc'[p] \in {"promoted", "done"}
              /\ \A x \in frame \ good :
                   BagIn(ErrorEntry("Warehouse", x.code), stats'[p].errors)
              /\ \A x \in good :
                   \E f \in fact' : f.code = x.code /\ f.quantity = x.quantity
              /\ stats'[p].warehouse_rows =
                   Cardinality({ x \in good : \E f \in fact' : f.code = x.code })
    ]_vars

(* C19: sales staging is first-write-wins.  A sales staging stage leaves   *)
(* every row that was in the sales staging relation exactly as it was,     *)
(* sales_quantity and import_timestamp included, also when the extract     *)
(* carries its key again; an order staging stage without errors gives the  *)
(* row of a key that was already staged the re-ingested measure values.    *)
C19_SalesFirstWriteWins ==
  [][ \A p \in Procs :
        (pc[p] = "normalized" /\ pc'[p] = "staged") =>
          IF kind = "sales"
          THEN staging \subseteq staging'
          ELSE stats'[p].errors = EmptyBag =>
                 \A s \in staging :
                   (\E i \in 1..Len(df[p]) : df[p][i].code = s.code) =>
                     [s EXCEPT !.quantity = LastOf(df[p], s.code).quantity,
                               !.delivered_quantity =
                                   LastOf(df[p], s.code).delivered_quantity,
                               !.import_timestamp =
                                   LastOf(df[p], s.code).import_timestamp]
                       \in staging' ]_vars

C19_Witness ==
  \E p \in Procs :
    /\ kind = "sales" /\ pc[p] = "staged" /\ NoErrors(p)
    /\ stats[p].staging_rows = Len(df[p])
    /\ \E i \in 1..Len(df[p]) : \E s \in staging :
         /\ s.code = df[p][i].code
         /\ s.quantity # df[p][i].quantity
         /\ s.import_timestamp < df[p][i].import_timestamp

Filtered == {"filtered", "promoted", "factory_listed"}

(* C20: classification filter.  In every reachable state no fact row       *)
(* carries a null qc, a staging row whose qc is null has no fact row under *)
(* its key, and the frame a run promotes holds no row with null qc: a      *)
(* selected row with null qc is dropped before promotion, also when its    *)
(* prefix is accepted.                                                     *)
C20_ClassificationFilter ==
  /\ \A f \in fact : f.qc # Null
  /\ \A s \in staging :
       s.qc = Null => \A f \in fact : f.code # CleanForWarehouse(kind, s).code
  /\ \A p \in Procs :
       pc[p] \in Filtered => \A x \in df_warehouse[p] : x.qc # Null

C20_Witness ==
  \E p \in Procs :
    /\ pc[p] = "done" /\ NoErrors(p) /\ stats[p].warehouse_rows = 1
    /\ \E s \in staging :
         /\ s.qc = Null /\ PrefixAccepted(kind, s)
         /\ s.import_timestamp > latest_import[p]
         /\ \A f \in fact : f.code # s.code
         /\ \E f \in fact : f.import_timestamp = s.import_timestamp

Remapped(p) == pc[p] = "selected" /\ pc'[p] = "filtered"
Kept(p) == { x \in df_warehouse[p] : PrefixAccepted(kind, x) /\ HasQc(x) }
Composite == <<"3","0","8","9","5",".","2">>

(* the code of the last of ST, TN, BP, QT that the companion field holds *)
LastMarkerCode(foc) ==
  IF foc = Null THEN Composite
  ELSE IF HasMarker(foc, <<"Q","T">>) THEN <<"3","0","8","9","5",".","4">>
  ELSE IF HasMarker(foc, <<"B","P">>) THEN <<"3","0","8","9","5",".","5">>
  ELSE IF HasMarker(foc, <<"T","N">>) THEN <<"3","0","8","9","5">>
  ELSE IF HasMarker(foc, <<"S","T">>) THEN <<"3","0","8","9","5",".","1">>
  ELSE Composite

(* C21: remap with several markers.  The remap step gives every kept row   *)
(* with the composite code 30895.2 the code of the last marker, in the     *)
(* order ST, TN, BP, QT (30895.1, 30895, 30895.5, 30895.4), that its       *)
(* companion field contains; with a null companion or none of the markers  *)
(* the code stays 30895.2.                                                 *)
C21_RemapOrder ==
  [][ \A p \in Procs :
        Remapped(p) =>
          \A x \in Kept(p) :
            x.factory_code = Composite =>
              \E y \in df_warehouse'[p] :
                /\ y.code = x.code
                /\ y.factory_code = LastMarkerCode(x.factory_order_code) ]_vars

C21_Witness ==
  \E p \in Procs :
    /\ pc[p] = "filtered"
    /\ \E s, t \in staging : \E y, z \in df_warehouse[p] :
         /\ s.code = y.code /\ s.factory_code = Composite
         /\ y.factory_order_code = <<"T","N","S","T">>
         /\ y.factory_code = <<"3","0","8","9","5">>
         /\ t.code = z.code /\ t.factory_code = Composite
         /\ z.factory_order_code = Null
         /\ z.factory_code = Composite

(* the value without a trailing ".0" *)
StripTrailing(x) ==
  IF x = Null THEN Null
  ELSE IF Len(x) >= 2 /\ x[Len(x) - 1] = "." /\ x[Len(x)] = "0"
       THEN SubSeq(x, 1, Len(x) - 2)
       ELSE x

(* C22: float-artifact coercion.  Every text field of a normalized record  *)
(* is the raw value without a trailing ".0": a value that does not end in  *)
(* ".0" is emitted unchanged, also when it contains ".0" elsewhere, and a  *)
(* null value stays null.                                                  *)
C22_FloatCoercion ==
  \A p \in Procs :
    (pc[p] \notin {"idle", "raised", "rejected"} /\ Len(df[p]) = Len(extract[p])) =>
      \A i \in 1..Len(df[p]) :
        /\ df[p][i].factory_code = StripTrailing(extract[p][i].factory_code)
        /\ df[p][i].factory_order_code = StripTrailing(extract[p][i].factory_order_code)
        /\ df[p][i].product_name = StripTrailing(extract[p][i].product_name)
        /\ df[p][i].qc = StripTrailing(extract[p][i].qc)

(* the staging row was promoted after it was last written: its fact row    *)
(* carries a later import_wh_timestamp than the row's import_timestamp     *)
PromotedSince(s) ==
  \E f \in fact :
    /\ f.code = CleanForWarehouse(kind, s).code
    /\ f.import_wh_timestamp > s.import_timestamp

(* C23: no repeated promotion without re-ingestion.  A staging row that a  *)
(* completed run promoted and that was not written to staging since is    *)
(* not selected by the Watermark Selector of a later run.                  *)
C23_NoRepeatedPromotion ==
  [][ \A p \in Procs :
        (pc[p] = "watermarked" /\ pc'[p] # pc[p]) =>
          \A s \in staging :
            PromotedSince(s) => \A x \in df_warehouse'[p] : x.code # s.code ]_vars

(* C24: no row is lost to a failed promotion.  A staging row that passes   *)
(* the prefix and classification filters and has no fact row, because its  *)
(* fact insert failed, is selected by the Watermark Selector of the next   *)
(* run, also when siblings of its import_timestamp were promoted.          *)
C24_NoRowLost ==
  [][ \A p \in Procs :
        (pc[p] = "watermarked" /\ pc'[p] # pc[p]) =>
          \A s \in staging :
            ( /\ PrefixAccepted(kind, s) /\ HasQc(s)
              /\ CleanForWarehouse(kind, s).code \notin Keys(fact) )
            => \E x \in df_warehouse'[p] : x.code = s.code ]_vars

FrameKeys(p) == { df[p][i].code : i \in 1..Len(df[p]) }

(* C25: concurrent runs lose no rows.  When two concurrent runs with       *)
(* extracts of disjoint business keys have both completed, without any     *)
(* row-level error, every staged row of either extract that passes the     *)
(* filters is in the fact relation.                                        *)
C25_ConcurrentNoLoss ==
  ( /\ pc[1] = "done" /\ pc[2] = "done"
    /\ NoErrors(1) /\ NoErrors(2)
    /\ FrameKeys(1) \cap FrameKeys(2) = {} )
  => \A s \in staging :
       ( /\ s.code \in FrameKeys(1) \cup FrameKeys(2)
         /\ PrefixAccepted(kind, s) /\ HasQc(s) )
       => CleanForWarehouse(kind, s).code \in Keys(fact)

(* C26: fact keys come from staging.  In every reachable state every       *)
(* business key of the fact relation is a business key of the staging      *)
(* relation of the same kind.                                              *)
C26_FactKeysFromStaging ==
  \A f \in fact : f.code \in Keys(staging)

(* C27: fact measures track staging.  At the end of every completed run    *)
(* that recorded no row-level error, every fact row carries the measure    *)
(* fields (order_quantity and delivered_quantity, or sales_quantity) of    *)
(* the staging row with the same business key.  No run is in flight.       *)
C27_MeasuresTrackStaging ==
  ( /\ \E p \in Procs : pc[p] = "done"
    /\ \A p \in Procs : pc[p] \in {"idle", "done"} /\ NoErrors(p) ) =>
      \A f \in fact : \A s \in staging :
        s.code = f.code =>
          /\ f.quantity = s.quantity
          /\ kind = "order" => f.delivered_quantity = s.delivered_quantity

Entering(p) == { CleanForWarehouse(kind, x) : x \in Kept(p) }
Corrected ==
  { <<"3","0","8","9","5",".","1">>, <<"3","0","8","9","5">>,
    <<"3","0","8","9","5",".","5">>, <<"3","0","8","9","5",".","4">>, Composite }

NothingNew(p) ==
  /\ pc[p] = "watermarked" /\ pc'[p] # pc[p]
  /\ NewRows(staging, latest_import[p]) = {}

(* C30: nothing-new early return.  When the Watermark Selector finds no    *)
(* staging row newer than the watermark, the run ends there with           *)
(* warehouse_rows = 0 in its report, and neither that step nor any step    *)
(* the run took before it (normalizing, staging, reading the watermark)    *)
(* changes the fact relation or a dimension relation.                      *)
C30_NothingNewReturn ==
  [][ \A p \in Procs :
        /\ (pc'[p] # pc[p] /\ pc'[p] \in {"normalized", "staged", "watermarked"}) =>
              /\ fact' = fact
              /\ dim_factory' = dim_factory
              /\ dim_product' = dim_product
        /\ NothingNew(p) =>
              /\ pc'[p] = "done"
              /\ stats'[p].warehouse_rows = 0
              /\ fact' = fact
              /\ dim_factory' = dim_factory
              /\ dim_product' = dim_product ]_vars

(* a run that staged its records, found the fact relation already at the   *)
(* watermark of everything in staging, and returned early                  *)
C30_Witness ==
  \E p \in Procs :
    /\ pc[p] = "done"
    /\ stats[p].staging_rows > 0
    /\ stats[p].warehouse_rows = 0
    /\ fact # {}
    /\ latest_import[p] = LatestImport(fact)
    /\ NewRows(staging, latest_import[p]) = {}
    /\ df_warehouse[p] = {}

====
